---------------------------- MODULE Spec2Model ----------------------------
(***************************************************************************)
(* A model of swebench/harness/extract_utils.py: the file locator, the     *)
(* manifest parsers, the package normalizer, the Python version extractor  *)
(* and the repository version extractor.                                   *)
(*                                                                         *)
(* Python strings are TLA+ strings; a character is a string of length 1    *)
(* (SubSeq(s, i, i)).  Python values of dynamic type (what yaml.safe_load  *)
(* and toml.load return, the running candidate, a result) are records      *)
(* whose single field names the type: [none |-> TRUE], [str |-> "3.9"],    *)
(* [num |-> "1.2"] (an int or a float, by its repr), [list |-> <<...>>],   *)
(* [dict |-> <<key, value>> pairs in insertion order].                     *)
(***************************************************************************)
EXTENDS Integers, Sequences, FiniteSets, TLC

(***************************************************************************)
(* Characters and strings                                                  *)
(***************************************************************************)
Char(s, i) == SubSeq(s, i, i)

Digits == {"0", "1", "2", "3", "4", "5", "6", "7", "8", "9"}

Letters ==
    {"a", "b", "c", "d", "e", "f", "g", "h", "i", "j", "k", "l", "m",
     "n", "o", "p", "q", "r", "s", "t", "u", "v", "w", "x", "y", "z",
     "A", "B", "C", "D", "E", "F", "G", "H", "I", "J", "K", "L", "M",
     "N", "O", "P", "Q", "R", "S", "T", "U", "V", "W", "X", "Y", "Z"}

\* \s of the re module, and the characters str.strip() removes
Whitespace == {" ", "\t", "\n", "\r", "\f"}

\* \w of the re module
WordChars == Letters \cup Digits \cup {"_"}

DigitVal(c) ==
    CASE c = "0" -> 0 [] c = "1" -> 1 [] c = "2" -> 2 [] c = "3" -> 3
      [] c = "4" -> 4 [] c = "5" -> 5 [] c = "6" -> 6 [] c = "7" -> 7
      [] c = "8" -> 8 [] c = "9" -> 9

DigitChar(d) ==
    CASE d = 0 -> "0" [] d = 1 -> "1" [] d = 2 -> "2" [] d = 3 -> "3"
      [] d = 4 -> "4" [] d = 5 -> "5" [] d = 6 -> "6" [] d = 7 -> "7"
      [] d = 8 -> "8" [] d = 9 -> "9"

\* s[i:] of Python, with i counted from 1
From(s, i) == SubSeq(s, i, Len(s))

\* s.startswith(p, i - 1)
StartsAt(s, i, p) ==
    /\ i + Len(p) - 1 <= Len(s)
    /\ SubSeq(s, i, i + Len(p) - 1) = p

StartsWith(s, p) == StartsAt(s, 1, p)

\* sub in s
Contains(s, sub) == \E i \in 1..(Len(s) + 1) : StartsAt(s, i, sub)

\* the least member of a set of numbers that is not empty
Least(S) == CHOOSE x \in S : \A y \in S : x <= y

\* the least index >= i at which sub starts in s, or 0
Find(s, sub, i) ==
    LET hits == {k \in i..(Len(s) + 1) : StartsAt(s, k, sub)}
    IN  IF hits = {} THEN 0 ELSE Least(hits)

\* the index after the longest run of characters of class cls starting at i
SkipRun(s, i, cls) ==
    Least({k \in i..(Len(s) + 1) : k = Len(s) + 1 \/ Char(s, k) \notin cls})

\* s.strip(chars)
StripLeft(s, cls) == From(s, SkipRun(s, 1, cls))

StripRight(s, cls) ==
    SubSeq(s, 1, Len(s) + 1
                 - Least({k \in 1..(Len(s) + 1) :
                             k = Len(s) + 1 \/ Char(s, Len(s) + 1 - k) \notin cls}))

StripChars(s, cls) == StripRight(StripLeft(s, cls), cls)

Strip(s) == StripChars(s, Whitespace)

\* s.split(sep) for a separator of one character
RECURSIVE Split(_, _)
Split(s, sep) ==
    LET i == Find(s, sep, 1)
    IN  IF i = 0 THEN <<s>>
        ELSE <<SubSeq(s, 1, i - 1)>> \o Split(From(s, i + 1), sep)

\* s.replace(old, new)
RECURSIVE Replace(_, _, _)
Replace(s, old, new) ==
    LET i == Find(s, old, 1)
    IN  IF i = 0 THEN s
        ELSE SubSeq(s, 1, i - 1) \o new \o Replace(From(s, i + Len(old)), old, new)

\* sep.join(parts)
RECURSIVE Join(_, _)
Join(parts, sep) ==
    IF Len(parts) = 0 THEN ""
    ELSE IF Len(parts) = 1 THEN parts[1]
    ELSE parts[1] \o sep \o Join(Tail(parts), sep)

\* the concatenation of a sequence of sequences
RECURSIVE Flatten(_)
Flatten(ss) == IF Len(ss) = 0 THEN <<>> ELSE Head(ss) \o Flatten(Tail(ss))

(***************************************************************************)
(* int(s) and str(n)                                                       *)
(***************************************************************************)
\* the digits of an int literal after its sign: digits, single underscores
\* allowed between them
IsDigitString(s) ==
    /\ Len(s) > 0
    /\ \A i \in 1..Len(s) : Char(s, i) \in Digits \cup {"_"}
    /\ Char(s, 1) \in Digits
    /\ Char(s, Len(s)) \in Digits
    /\ \A i \in 1..(Len(s) - 1) : ~(Char(s, i) = "_" /\ Char(s, i + 1) = "_")

Unsigned(s) ==
    LET t == Strip(s)
    IN  IF Len(t) > 0 /\ Char(t, 1) \in {"+", "-"} THEN Tail(t) ELSE t

\* int(s) does not raise ValueError
IsInt(s) == IsDigitString(Unsigned(s))

RECURSIVE DigitsValue(_, _)
DigitsValue(s, acc) ==
    IF Len(s) = 0 THEN acc
    ELSE IF Head(s) = "_" THEN DigitsValue(Tail(s), acc)
    ELSE DigitsValue(Tail(s), 10 * acc + DigitVal(Head(s)))

IntOf(s) ==
    LET t == Strip(s)
        v == DigitsValue(Unsigned(s), 0)
    IN  IF Len(t) > 0 /\ Char(t, 1) = "-" THEN 0 - v ELSE v

RECURSIVE NatStr(_)
NatStr(n) == IF n < 10 THEN DigitChar(n) ELSE NatStr(n \div 10) \o DigitChar(n % 10)

StrOf(n) == IF n < 0 THEN "-" \o NatStr(0 - n) ELSE NatStr(n)

(***************************************************************************)
(* Python values                                                           *)
(***************************************************************************)
PyNone == [none |-> TRUE]
PyStr(s) == [str |-> s]
PyNum(repr) == [num |-> repr]
PyList(items) == [list |-> items]
PyDict(pairs) == [dict |-> pairs]

IsNone(v) == DOMAIN v = {"none"}
IsStr(v) == DOMAIN v = {"str"}
IsNum(v) == DOMAIN v = {"num"}
IsList(v) == DOMAIN v = {"list"}
IsDict(v) == DOMAIN v = {"dict"}

\* bool(v)
Truthy(v) ==
    IF IsNone(v) THEN FALSE
    ELSE IF IsStr(v) THEN Len(v.str) > 0
    ELSE IF IsNum(v) THEN v.num \notin {"0", "0.0"}
    ELSE IF IsList(v) THEN Len(v.list) > 0
    ELSE Len(v.dict) > 0

\* str(v) of a scalar
PyStrOf(v) ==
    IF IsStr(v) THEN v.str
    ELSE IF IsNum(v) THEN v.num
    ELSE IF IsNone(v) THEN "None"
    ELSE "..."

\* key in d, for a dict d
HasKey(d, key) == \E i \in 1..Len(d.dict) : d.dict[i][1] = key

\* d[key], for a dict d that has the key
Item(d, key) ==
    LET i == CHOOSE j \in 1..Len(d.dict) : d.dict[j][1] = key IN d.dict[i][2]

(***************************************************************************)
(* The state                                                               *)
(***************************************************************************)
VARIABLES
    fn,                 \* the function that was called
    pc,                 \* where the call is: a loop, "done" or "raised"
    exc,                \* the exception that escaped the call, "" if none
    result,             \* the value the call returned
    fs,                 \* the files of the filesystem
    cwd,                \* the current working directory of the process
    todo,               \* the files os.walk has not yielded yet, in its order
    opened,             \* the paths of the files the call has opened
    filenames,          \* find_files: the target filenames
    found_files,        \* find_files: the mapping, in insertion order
    keyidx,             \* get_required_packages: keys of found_files consumed
    all_packages,       \* get_required_packages: the concatenated parser output
    pkgidx,             \* get_required_packages: entries of all_packages consumed
    seen,               \* get_required_packages: the raw strings seen
    unique_packages,    \* get_required_packages: the list being returned
    possible_versions,  \* get_python_version_from_directory: the candidates
    cand,               \* get_repo_version_candidate: the running candidate
    default,            \* get_repo_version: the caller's default
    versions,           \* get_max_python_version: its argument
    package             \* is_valid_package_name: its argument

callVars == <<fn, pc, exc, result>>
fsVars == <<fs, cwd, todo, opened>>
pkgVars ==
    <<filenames, found_files, keyidx, all_packages, pkgidx, seen, unique_packages>>
verVars == <<possible_versions, cand, default>>
argVars == <<versions, package>>
vars == <<callVars, fsVars, pkgVars, verVars, argVars>>

\* the values of the variables a call does not use
IdleFs == fs = {} /\ cwd = "" /\ todo = <<>> /\ opened = <<>>
IdlePkg ==
    /\ filenames = <<>>
    /\ found_files = <<>>
    /\ keyidx = 0
    /\ all_packages = <<>>
    /\ pkgidx = 0
    /\ seen = {}
    /\ unique_packages = <<>>
IdleVer == possible_versions = <<>> /\ cand = PyNone /\ default = PyNone
IdleArgs == versions = <<>> /\ package = ""

(***************************************************************************)
(* get_max_python_version                                                  *)
(***************************************************************************)
\* A comparison that reads a missing patch component as 0
TupleLessPadded(a, b) ==
    LET pad(t) == [i \in 1..3 |-> IF i <= Len(t) THEN t[i] ELSE 0]
    IN  \E k \in 1..3 :
            /\ pad(a)[k] < pad(b)[k]
            /\ \A i \in 1..(k - 1) : pad(a)[i] = pad(b)[i]

\* a < b for tuples of ints: Python compares them lexicographically, and a
\* proper prefix is less than the tuple it is a prefix of
RECURSIVE TupleLess(_, _)
TupleLess(a, b) ==
    IF Len(b) = 0 THEN FALSE
    ELSE IF Len(a) = 0 THEN TRUE
    ELSE IF a[1] # b[1] THEN a[1] < b[1]
    ELSE TupleLess(Tail(a), Tail(b))

TupleLeq(a, b) == a = b \/ TupleLess(a, b)

\* tuple(map(int, v.split('.')))
VersionTuple(v) ==
    LET parts == Split(v, ".") IN [i \in 1..Len(parts) |-> IntOf(parts[i])]

\* The check of is_possible_python_version (lines 239-243) in its place: 3.6 to
\* 3.12, and no check of the number of components
is_valid_python_version_from_36(version) ==
    LET parts == Split(version, ".")
    IN  /\ Len(parts) >= 2
        /\ IsInt(parts[1]) /\ IsInt(parts[2])
        /\ IntOf(parts[1]) = 3
        /\ 6 <= IntOf(parts[2]) /\ IntOf(parts[2]) <= 12

is_valid_python_version(version) ==
    LET parts == Split(version, ".")
    IN  IF Len(parts) < 2 \/ Len(parts) > 3 THEN FALSE
        ELSE IF ~IsInt(parts[1]) \/ ~IsInt(parts[2]) THEN FALSE
        ELSE IF ~(/\ TupleLeq(<<3, 5>>, <<IntOf(parts[1]), IntOf(parts[2])>>)
                  /\ TupleLeq(<<IntOf(parts[1]), IntOf(parts[2])>>, <<3, 12>>))
             THEN FALSE
        ELSE IF Len(parts) = 3 /\ ~IsInt(parts[3]) THEN FALSE
        ELSE TRUE

\* max(tuples): the first of the greatest items
RECURSIVE MaxTuple(_, _)
MaxTuple(tuples, best) ==
    IF Len(tuples) = 0 THEN best
    ELSE MaxTuple(Tail(tuples), IF TupleLess(best, Head(tuples)) THEN Head(tuples) ELSE best)

get_max_python_version(vs) ==
    LET valid_versions == SelectSeq(vs, is_valid_python_version)
        tuples == [i \in 1..Len(valid_versions) |-> VersionTuple(valid_versions[i])]
        max_version_tuple == MaxTuple(Tail(tuples), Head(tuples))
    IN  IF Len(valid_versions) > 0
        THEN PyStr(Join([i \in 1..Len(max_version_tuple) |-> StrOf(max_version_tuple[i])], "."))
        ELSE PyNone

\* The candidate strings the calls of get_max_python_version are drawn from
VersionStrings ==
    {"3.6", "3.9", "3.13", "2.7", "3.4", "3.5", "3.12", "3.9.0", "3.9.1",
     "3.12.0", "3.09", "3", "3.9.1.2", "3.9.x"}

MaxVersions == 3

VersionLists == UNION {[1..n -> VersionStrings] : n \in 0..MaxVersions}

InitMax ==
    /\ fn = "get_max_python_version"
    /\ pc = "call"
    /\ exc = ""
    /\ result = PyNone
    /\ versions \in VersionLists
    /\ package = ""
    /\ IdleFs /\ IdlePkg /\ IdleVer

CallGetMaxPythonVersion ==
    /\ fn = "get_max_python_version"
    /\ pc = "call"
    /\ result' = get_max_python_version(versions)
    /\ pc' = "done"
    /\ UNCHANGED <<fn, exc, fsVars, pkgVars, verVars, argVars>>

NextMax == CallGetMaxPythonVersion

SpecMax == InitMax /\ [][NextMax]_vars

(***************************************************************************)
(* is_valid_package_name                                                   *)
(***************************************************************************)
\* [a-zA-Z_] and [a-zA-Z0-9_.-]
NameStart == Letters \cup {"_"}
NameChars == Letters \cup Digits \cup {"_", ".", "-"}

\* [=<>!~]
OperatorStart == {"=", "<", ">", "!", "~"}

\* $ at index i: the end of the string, or just before a final newline
AtDollar(s, i) == i = Len(s) + 1 \/ (i = Len(s) /\ Char(s, i) = "\n")

\* .*$ from index i: . is any character but a newline
RestMatches(s, i) ==
    \E k \in i..(Len(s) + 1) :
        /\ \A m \in i..(k - 1) : Char(s, m) # "\n"
        /\ AtDollar(s, k)

\* ^[a-zA-Z_][a-zA-Z0-9_.-]*\s*(?:[=<>!~]=.*)?$ matches the package.  The
\* name, the whitespace and the operator are runs of disjoint classes, so
\* the name ends at i; the whitespace may end at any p up to j.
is_valid_package_name(pkg) ==
    /\ Len(pkg) > 0
    /\ Char(pkg, 1) \in NameStart
    /\ LET i == SkipRun(pkg, 2, NameChars)
           j == SkipRun(pkg, i, Whitespace)
       IN  \E p \in i..j :
               \/ AtDollar(pkg, p)
               \/ /\ p + 1 <= Len(pkg)
                  /\ Char(pkg, p) \in OperatorStart
                  /\ Char(pkg, p + 1) = "="
                  /\ RestMatches(pkg, p + 2)

\* The characters and the length of the generated arguments
PackageChars == {"a", "1", "_", "-", ".", "=", "<", ">", "!", "~", " ", "#", "\n"}

MaxPackageLen == 3

RECURSIVE StringsOfLen(_)
StringsOfLen(n) ==
    IF n = 0 THEN {""}
    ELSE UNION {{s \o c : c \in PackageChars} : s \in StringsOfLen(n - 1)}

PackageExamples == {"numpy==1.21.0", "flask_sqlalchemy", "foo<2.0", "1invalid", "==1.0"}

PackageStrings == PackageExamples \cup UNION {StringsOfLen(n) : n \in 0..MaxPackageLen}

InitValid ==
    /\ fn = "is_valid_package_name"
    /\ pc = "call"
    /\ exc = ""
    /\ result = PyNone
    /\ package \in PackageStrings
    /\ versions = <<>>
    /\ IdleFs /\ IdlePkg /\ IdleVer

CallIsValidPackageName ==
    /\ fn = "is_valid_package_name"
    /\ pc = "call"
    /\ result' = [bool |-> is_valid_package_name(package)]
    /\ pc' = "done"
    /\ UNCHANGED <<fn, exc, fsVars, pkgVars, verVars, argVars>>

NextValid == CallIsValidPackageName

SpecValid == InitValid /\ [][NextValid]_vars

(***************************************************************************)
(* The filesystem                                                          *)
(*                                                                         *)
(* A file is [dir, name, text, doc]: the directory holding it, its name,   *)
(* what read() returns, and what yaml.safe_load or toml.load returns for   *)
(* it: a Python value, or [error |-> the exception the loader raises].     *)
(***************************************************************************)
\* The directory every call is given
Directory == "/repo"

File(dir, name, text, doc) == [dir |-> dir, name |-> name, text |-> text, doc |-> doc]

TextFile(dir, name, text) == File(dir, name, text, PyNone)

DocFile(dir, name, doc) == File(dir, name, "", doc)

LoadError(e) == [error |-> e]

IsLoadError(doc) == DOMAIN doc = {"error"}

FullPath(f) == f.dir \o "/" \o f.name

\* f is in the tree os.walk(Directory) visits
UnderDirectory(f) == f.dir = Directory \/ StartsWith(f.dir, Directory \o "/")

\* os.path.relpath(os.path.join(root, file), directory)
RelPath(f) ==
    IF f.dir = Directory THEN f.name
    ELSE From(f.dir, Len(Directory) + 2) \o "/" \o f.name

\* os.path.basename(path)
RECURSIVE BaseName(_)
BaseName(path) ==
    LET i == Find(path, "/", 1) IN IF i = 0 THEN path ELSE BaseName(From(path, i + 1))

\* The file a path names: a relative path is resolved against the current
\* working directory of the process
Resolve(path) == IF StartsWith(path, "/") THEN path ELSE cwd \o "/" \o path

Exists(path) == \E f \in fs : FullPath(f) = Resolve(path)

Read(path) == CHOOSE f \in fs : FullPath(f) = Resolve(path)

\* dir is a proper ancestor of sub
IsAncestor(dir, sub) == StartsWith(sub, dir \o "/")

\* os.walk is top-down: the files of a directory come in one batch, before
\* the files of the directories below it
IsWalkOrder(walk) ==
    /\ \A i, j \in 1..Len(walk) : i < j => ~IsAncestor(walk[j].dir, walk[i].dir)
    /\ \A i, k \in 1..Len(walk) :
           (i < k /\ walk[i].dir = walk[k].dir) =>
               \A j \in i..k : walk[j].dir = walk[i].dir

\* The orders in which os.walk(Directory) may yield the files of the tree
WalkOrders(files) ==
    LET tree == {f \in files : UnderDirectory(f)}
        n == Cardinality(tree)
    IN  {w \in [1..n -> tree] :
            /\ \A i, j \in 1..n : i # j => w[i] # w[j]
            /\ IsWalkOrder(w)}

\* The outcome of a step that may raise
Ok(v) == [ok |-> v]
Raise(e) == [raise |-> e]
IsOk(r) == DOMAIN r = {"ok"}

(***************************************************************************)
(* find_files                                                              *)
(***************************************************************************)
\* The key the prefix rule is tried for first
KeyOfPrefixFirst(file, targets) ==
    IF StartsWith(file, "requirements") THEN <<"requirements.txt">>
    ELSE IF \E i \in 1..Len(targets) : targets[i] = file THEN <<file>>
    ELSE <<>>

\* The key of found_files a file is appended under: <<key>>, or <<>>
KeyOf(file, targets) ==
    IF \E i \in 1..Len(targets) : targets[i] = file THEN <<file>>
    ELSE IF StartsWith(file, "requirements") THEN <<"requirements.txt">>
    ELSE <<>>

\* found_files[key].append(item): a defaultdict(list), keys in insertion order
DictAppend(d, key, item) ==
    IF \E i \in 1..Len(d) : d[i][1] = key
    THEN [i \in 1..Len(d) |-> IF d[i][1] = key THEN <<key, Append(d[i][2], item)>> ELSE d[i]]
    ELSE Append(d, <<key, <<item>>>>)

\* One iteration of the loops of find_files: the next file of os.walk
FindFilesStep ==
    /\ fn \in {"find_files", "get_required_packages", "get_required_packages_file"}
    /\ pc = "walk"
    /\ Len(todo) > 0
    /\ LET file == Head(todo)
           cur_file == RelPath(file)
           key == KeyOf(file.name, filenames)
       IN  found_files' = IF Len(key) > 0 THEN DictAppend(found_files, key[1], cur_file)
                          ELSE found_files
    /\ todo' = Tail(todo)
    /\ UNCHANGED <<callVars, fs, cwd, opened, filenames, keyidx, all_packages, pkgidx,
                   seen, unique_packages, verVars, argVars>>

\* find_files returns; get_required_packages_file returns what it returned
FindFilesReturn ==
    /\ fn \in {"find_files", "get_required_packages_file"}
    /\ pc = "walk"
    /\ Len(todo) = 0
    /\ result' = PyDict(found_files)
    /\ pc' = "done"
    /\ UNCHANGED <<fn, exc, fsVars, pkgVars, verVars, argVars>>

(***************************************************************************)
(* The parsers                                                             *)
(***************************************************************************)
\* The lines of parse_requirements_txt that it keeps
RECURSIVE RequirementLines(_)
RequirementLines(lines) ==
    IF Len(lines) = 0 THEN <<>>
    ELSE LET line == Strip(Head(lines))
         IN  (IF Len(line) > 0 /\ ~StartsWith(line, "#")
              THEN <<Split(line, ";")[1]>>
              ELSE <<>>) \o RequirementLines(Tail(lines))

parse_requirements_txt(filepath) ==
    IF ~Exists(filepath) THEN Raise("FileNotFoundError")
    ELSE Ok(RequirementLines(Split(Read(filepath).text, "\n")))

\* d.get(key, dflt), for a dict d
GetOr(d, key, dflt) == IF HasKey(d, key) THEN Item(d, key) ELSE dflt

\* What one entry of dependencies adds to packages
EnvironmentDep(dep) ==
    IF IsStr(dep) THEN <<dep.str>>
    ELSE IF IsDict(dep) /\ HasKey(dep, "pip")
         THEN [i \in 1..Len(Item(dep, "pip").list) |-> Item(dep, "pip").list[i].str]
    ELSE <<>>

parse_environment_yml(filepath) ==
    IF ~Exists(filepath) THEN Raise("FileNotFoundError")
    ELSE LET env == Read(filepath).doc
         IN  IF IsLoadError(env) THEN Raise(env.error)
             ELSE IF ~IsDict(env) THEN Raise("AttributeError")
             ELSE LET dependencies == GetOr(env, "dependencies", PyList(<<>>))
                  IN  IF ~IsList(dependencies) THEN Raise("TypeError")
                      ELSE Ok(Flatten([i \in 1..Len(dependencies.list) |->
                                          EnvironmentDep(dependencies.list[i])]))

\* The index after  keyword \s* = \s* opener  when s has it at index i, else 0
AfterAssignment(s, i, keyword, opener) ==
    IF ~StartsAt(s, i, keyword) THEN 0
    ELSE LET a == SkipRun(s, i + Len(keyword), Whitespace)
         IN  IF ~StartsAt(s, a, "=") THEN 0
             ELSE LET b == SkipRun(s, a + 1, Whitespace)
                  IN  IF StartsAt(s, b, opener) THEN b + Len(opener) ELSE 0

\* (.*?)\] from index i with re.DOTALL: the text up to the first ], as <<text>>,
\* or <<>> when no ] follows
UpToBracket(s, i) ==
    LET k == Find(s, "]", i) IN IF k = 0 THEN <<>> ELSE <<SubSeq(s, i, k - 1)>>

\* re.search(r'install_requires\s*=\s*\[(.*?)\]', content, re.DOTALL): group 1
\* of the leftmost match as <<text>>, or <<>>
InstallRequires(content) ==
    LET After(i) == AfterAssignment(content, i, "install_requires", "[")
        starts == {i \in 1..Len(content) :
                      After(i) > 0 /\ Len(UpToBracket(content, After(i))) > 0}
    IN  IF starts = {} THEN <<>> ELSE UpToBracket(content, After(Least(starts)))

\* The index after  ["']testing["']\s*:\s*\[  when s has it at index i, else 0
AfterTestingKey(s, i) ==
    IF ~(i + 8 <= Len(s) /\ Char(s, i) \in {"\"", "'"} /\ StartsAt(s, i + 1, "testing")
         /\ Char(s, i + 8) \in {"\"", "'"}) THEN 0
    ELSE LET a == SkipRun(s, i + 9, Whitespace)
         IN  IF ~StartsAt(s, a, ":") THEN 0
             ELSE LET b == SkipRun(s, a + 1, Whitespace)
                  IN  IF StartsAt(s, b, "[") THEN b + 1 ELSE 0

\* .*?["']testing["']\s*:\s*\[(.*?)\] from index i: the first index at which
\* the rest matches decides
TestingList(s, i) ==
    LET starts == {k \in i..Len(s) :
                      AfterTestingKey(s, k) > 0
                      /\ Len(UpToBracket(s, AfterTestingKey(s, k))) > 0}
    IN  IF starts = {} THEN <<>> ELSE UpToBracket(s, AfterTestingKey(s, Least(starts)))

\* re.search(r'extras_require\s*=\s*{.*?["\']testing["\']\s*:\s*\[(.*?)\]',
\* content, re.DOTALL): group 1 of the leftmost match as <<text>>, or <<>>
ExtrasRequire(content) ==
    LET After(i) == AfterAssignment(content, i, "extras_require", "{")
        starts == {i \in 1..Len(content) :
                      After(i) > 0 /\ Len(TestingList(content, After(i))) > 0}
    IN  IF starts = {} THEN <<>> ELSE TestingList(content, After(Least(starts)))

\* [req.strip().strip('"').strip("'") for req in requires.split(',')]
RequireEntries(requires) ==
    LET reqs == Split(requires, ",")
    IN  [i \in 1..Len(reqs) |-> StripChars(StripChars(Strip(reqs[i]), {"\""}), {"'"})]

parse_setup_py(filepath) ==
    IF ~Exists(filepath) THEN Raise("FileNotFoundError")
    ELSE LET content == Read(filepath).text
             install_requires_match == InstallRequires(content)
             extras_require_match == ExtrasRequire(content)
         IN  Ok((IF Len(install_requires_match) > 0
                 THEN RequireEntries(install_requires_match[1]) ELSE <<>>)
                \o (IF Len(extras_require_match) > 0
                    THEN RequireEntries(extras_require_match[1]) ELSE <<>>))

\* What one item of a poetry dependency table adds to packages
PoetryDep(item) ==
    LET dep == item[1]
        version == item[2]
    IN  IF IsStr(version) THEN dep \o "==" \o version.str
        ELSE IF IsDict(version) /\ HasKey(version, "version")
             THEN dep \o "==" \o PyStrOf(Item(version, "version"))
        ELSE dep

\* pyproject.get('tool', {}).get('poetry', {}).get(key, {}): a value, or the
\* AttributeError of calling get on a value that is no dict
PoetryEntry(pyproject, key) ==
    LET tool == GetOr(pyproject, "tool", PyDict(<<>>))
    IN  IF ~IsDict(tool) THEN Raise("AttributeError")
        ELSE LET poetry == GetOr(tool, "poetry", PyDict(<<>>))
             IN  IF ~IsDict(poetry) THEN Raise("AttributeError")
                 ELSE Ok(GetOr(poetry, key, PyDict(<<>>)))

parse_pyproject_toml(filepath) ==
    IF ~Exists(filepath) THEN Raise("FileNotFoundError")
    ELSE LET pyproject == Read(filepath).doc
         IN  IF IsLoadError(pyproject) THEN Raise(pyproject.error)
             ELSE LET dependencies == PoetryEntry(pyproject, "dependencies")
                      dev_dependencies == PoetryEntry(pyproject, "dev-dependencies")
                  IN  IF ~IsOk(dependencies) THEN dependencies
                      ELSE IF ~IsOk(dev_dependencies) THEN dev_dependencies
                      ELSE IF ~IsDict(dependencies.ok) \/ ~IsDict(dev_dependencies.ok)
                           THEN Raise("AttributeError")
                      ELSE LET items == dependencies.ok.dict \o dev_dependencies.ok.dict
                               packages == [i \in 1..Len(items) |-> PoetryDep(items[i])]
                               kept == SelectSeq(packages,
                                                 LAMBDA q : ~StartsWith(q, "python=="))
                           IN  Ok([i \in 1..Len(kept) |-> Replace(kept[i], "==^", ">=")])

(***************************************************************************)
(* get_required_packages                                                   *)
(***************************************************************************)
files_to_check == <<"requirements.txt", "environment.yml", "setup.py", "pyproject.toml">>

files_to_check_file ==
    <<"requirements.txt", "environment.yml", "setup.py", "pyproject.toml", "tox.ini">>

\* find_files has returned to get_required_packages
FindFilesReturnToPackages ==
    /\ fn = "get_required_packages"
    /\ pc = "walk"
    /\ Len(todo) = 0
    /\ pc' = "parse"
    /\ UNCHANGED <<fn, exc, result, fsVars, pkgVars, verVars, argVars>>

\* The parser the loop  for filepath in found_files  calls for filepath, which
\* is a key of the mapping: <<parser name>>, or <<>> when no branch is taken
ParserFor(filepath) ==
    LET file == BaseName(filepath)
    IN  IF StartsWith(file, "requirements") /\ ~Contains(filepath, "docs")
        THEN <<"parse_requirements_txt">>
        ELSE IF file = "environment.yml" THEN <<"parse_environment_yml">>
        ELSE IF file = "setup.py" THEN <<"parse_setup_py">>
        ELSE IF file = "pyproject.toml" THEN <<"parse_pyproject_toml">>
        ELSE <<>>

Parse(parser, filepath) ==
    CASE parser = "parse_requirements_txt" -> parse_requirements_txt(filepath)
      [] parser = "parse_environment_yml" -> parse_environment_yml(filepath)
      [] parser = "parse_setup_py" -> parse_setup_py(filepath)
      [] parser = "parse_pyproject_toml" -> parse_pyproject_toml(filepath)

\* One iteration of  for filepath in found_files: iterating a dict yields its
\* keys
ParseNextFile ==
    /\ fn = "get_required_packages"
    /\ pc = "parse"
    /\ keyidx < Len(found_files)
    /\ LET filepath == found_files[keyidx + 1][1]
           parser == ParserFor(filepath)
           parsed == IF Len(parser) > 0 THEN Parse(parser[1], filepath) ELSE Ok(<<>>)
       IN  /\ opened' = IF Len(parser) > 0 /\ Exists(filepath)
                        THEN Append(opened, Resolve(filepath)) ELSE opened
           /\ IF IsOk(parsed)
              THEN /\ all_packages' = all_packages \o parsed.ok
                   /\ keyidx' = keyidx + 1
                   /\ UNCHANGED <<pc, exc>>
              ELSE /\ pc' = "raised"
                   /\ exc' = parsed.raise
                   /\ UNCHANGED <<all_packages, keyidx>>
    /\ UNCHANGED <<fn, result, fs, cwd, todo, filenames, found_files, pkgidx, seen,
                   unique_packages, verVars, argVars>>

\* The loop over found_files is over
ParseDone ==
    /\ fn = "get_required_packages"
    /\ pc = "parse"
    /\ keyidx = Len(found_files)
    /\ pc' = "unique"
    /\ UNCHANGED <<fn, exc, result, fsVars, pkgVars, verVars, argVars>>

\* pkg.split("#")[0].replace(" ", "")
Normalized(pkg) == Replace(Split(pkg, "#")[1], " ", "")

\* One iteration of  for pkg in all_packages
UniqueStep ==
    /\ fn = "get_required_packages"
    /\ pc = "unique"
    /\ pkgidx < Len(all_packages)
    /\ LET pkg == all_packages[pkgidx + 1]
       IN  IF pkg \notin seen /\ is_valid_package_name(pkg)
           THEN /\ unique_packages' = Append(unique_packages, Normalized(pkg))
                /\ seen' = seen \cup {pkg}
           ELSE UNCHANGED <<unique_packages, seen>>
    /\ pkgidx' = pkgidx + 1
    /\ UNCHANGED <<callVars, fsVars, filenames, found_files, keyidx, all_packages,
                   verVars, argVars>>

GetRequiredPackagesReturn ==
    /\ fn = "get_required_packages"
    /\ pc = "unique"
    /\ pkgidx = Len(all_packages)
    /\ result' = PyList(unique_packages)
    /\ pc' = "done"
    /\ UNCHANGED <<fn, exc, fsVars, pkgVars, verVars, argVars>>

(***************************************************************************)
(* The calls of find_files, get_required_packages and                      *)
(* get_required_packages_file                                              *)
(***************************************************************************)
EnvironmentDoc ==
    PyDict(<< <<"name", PyStr("env")>>,
              <<"dependencies",
                PyList(<<PyStr("numpy"),
                         PyDict(<< <<"pip", PyList(<<PyStr("foo==1.0")>>)>> >>)>>)>> >>)

PyprojectDoc ==
    PyDict(<< <<"tool",
                PyDict(<< <<"poetry",
                            PyDict(<< <<"version", PyStr("9.9.9")>>,
                                      <<"dependencies",
                                        PyDict(<< <<"python", PyStr("^3.8")>>,
                                                  <<"requests", PyStr("^2.0")>>,
                                                  <<"attrs", PyDict(<< <<"version", PyStr("21.0")>> >>)>>,
                                                  <<"six", PyDict(<< <<"optional", PyStr("true")>> >>)>> >>)>>,
                                      <<"dev-dependencies",
                                        PyDict(<< <<"pytest", PyStr("7.0")>> >>)>> >>)>> >>)>> >>)

SetupPyText ==
    "setup(name='x', version='2.3.4', python_requires='>=3.6',\n"
    \o " install_requires=['foo==1.0', \"six\"],\n"
    \o " extras_require = {'dev': ['tox'], 'testing': ['pytest>=7']})\n"

\* The files the filesystem of a call is drawn from
PackageFiles ==
    {TextFile("/repo", "requirements-dev.txt", "foo==1.0\n"),
     TextFile("/repo", "requirements.txt", "bar>=2.0\nbar >=2.0\n# pinned\nbaz ; extra\n"),
     TextFile("/repo/docs", "requirements.txt", "sphinx\n"),
     TextFile("/repo/sub", "requirements.txt", "bar>=2.0\n"),
     TextFile("/repo", "requirements.in", "qux\n"),
     TextFile("/repo", "setup.py", SetupPyText),
     DocFile("/repo", "environment.yml", EnvironmentDoc),
     DocFile("/repo", "environment.yml", PyNone),
     DocFile("/repo", "pyproject.toml", PyprojectDoc),
     DocFile("/repo", "pyproject.toml", LoadError("TomlDecodeError")),
     TextFile("/repo", "tox.ini", "[tox]\n"),
     TextFile("/repo", "README.md", "docs\n"),
     TextFile("/work", "requirements.txt", "bar>=2.0\n1invalid\nbar>=2.0 # again\n")}

WorkingDirectories == {"/repo", "/repo/docs", "/work"}

\* The target lists of the direct calls of find_files
FindTargets == {<<"requirements.in", "setup.py">>, <<"tox.ini", "README.md">>}

MaxFiles == 3

\* The filesystems of at most MaxFiles files, no two at one path
FileSystems(universe) ==
    {S \in SUBSET universe :
        /\ Cardinality(S) <= MaxFiles
        /\ \A f, g \in S : FullPath(f) = FullPath(g) => f = g}

InitPkg ==
    /\ \/ fn = "get_required_packages" /\ filenames = files_to_check
       \/ fn = "get_required_packages_file" /\ filenames = files_to_check_file
       \/ fn = "find_files" /\ filenames \in FindTargets
    /\ pc = "walk"
    /\ exc = ""
    /\ result = PyNone
    /\ fs \in FileSystems(PackageFiles)
    /\ cwd \in WorkingDirectories
    /\ todo \in WalkOrders(fs)
    /\ opened = <<>>
    /\ found_files = <<>>
    /\ keyidx = 0
    /\ all_packages = <<>>
    /\ pkgidx = 0
    /\ seen = {}
    /\ unique_packages = <<>>
    /\ IdleVer /\ IdleArgs

NextPkg ==
    \/ FindFilesStep
    \/ FindFilesReturn
    \/ FindFilesReturnToPackages
    \/ ParseNextFile
    \/ ParseDone
    \/ UniqueStep
    \/ GetRequiredPackagesReturn

SpecPkg == InitPkg /\ [][NextPkg]_vars

(***************************************************************************)
(* The patterns of the version extractors                                  *)
(***************************************************************************)
IsWordAt(s, i) == i >= 1 /\ i <= Len(s) /\ Char(s, i) \in WordChars

IsDigitAt(s, i) == i >= 1 /\ i <= Len(s) /\ Char(s, i) \in Digits

\* \b at index i: between the characters i - 1 and i
WordBoundary(s, i) == IsWordAt(s, i - 1) # IsWordAt(s, i)

\* \b(\d+\.\d+(\.\d+)?)\b, or \b(\d+\.\d+)\b without the group for the patch,
\* matched at index i: the index after the match, or 0.  A run of digits that
\* is cut short is followed by a digit, where neither \. nor \b matches, so
\* only the longest runs are tried.
VersionEnd(s, i, patch) ==
    IF ~(WordBoundary(s, i) /\ IsDigitAt(s, i)) THEN 0
    ELSE LET a == SkipRun(s, i, Digits)
         IN  IF ~(StartsAt(s, a, ".") /\ IsDigitAt(s, a + 1)) THEN 0
             ELSE LET b == SkipRun(s, a + 1, Digits)
                      c == SkipRun(s, b + 1, Digits)
                  IN  IF /\ patch
                         /\ StartsAt(s, b, ".")
                         /\ IsDigitAt(s, b + 1)
                         /\ WordBoundary(s, c)
                      THEN c
                      ELSE IF WordBoundary(s, b) THEN b
                      ELSE 0

\* re.findall of the pattern from index i: group 1 of each match, from left to
\* right, no two overlapping
RECURSIVE FindVersions(_, _, _)
FindVersions(s, i, patch) ==
    LET starts == {k \in i..Len(s) : VersionEnd(s, k, patch) > 0}
    IN  IF starts = {} THEN <<>>
        ELSE LET k == Least(starts)
             IN  <<SubSeq(s, k, VersionEnd(s, k, patch) - 1)>>
                 \o FindVersions(s, VersionEnd(s, k, patch), patch)

\* re.findall(r'\b(\d+\.\d+(\.\d+)?)\b', s): [match[0] for match in matches]
VersionTokens(s) == FindVersions(s, 1, TRUE)

Quotes == {"\"", "'"}

\* The index after  keyword \s* = \s* ['"]  when s has it at index i, else 0
AfterQuotedAssignment(s, i, keyword) ==
    IF AfterAssignment(s, i, keyword, "'") > 0 THEN AfterAssignment(s, i, keyword, "'")
    ELSE AfterAssignment(s, i, keyword, "\"")

\* (.+?)['"] from index a: the index of the closing quote, the first quote
\* after at least one character with no newline before it, or 0
ClosingQuote(s, a) ==
    LET ends == {k \in (a + 1)..Len(s) :
                    /\ Char(s, k) \in Quotes
                    /\ \A m \in a..(k - 1) : Char(s, m) # "\n"}
    IN  IF ends = {} THEN 0 ELSE Least(ends)

\* re.search(r'python_requires\s*=\s*[\'"](.+?)[\'"]', content): group 1 of the
\* leftmost match as <<text>>, or <<>>
PythonRequires(content) ==
    LET After(i) == AfterQuotedAssignment(content, i, "python_requires")
        starts == {i \in 1..Len(content) :
                      After(i) > 0 /\ ClosingQuote(content, After(i)) > 0}
    IN  IF starts = {} THEN <<>>
        ELSE LET a == After(Least(starts))
             IN  <<SubSeq(content, a, ClosingQuote(content, a) - 1)>>

ClassifierPrefix == "Programming Language :: Python :: "

\* Programming Language :: Python :: (\d+\.\d+) matched at index i: the index
\* after the match, or 0
ClassifierEnd(s, i) ==
    IF ~StartsAt(s, i, ClassifierPrefix) THEN 0
    ELSE LET a == SkipRun(s, i + Len(ClassifierPrefix), Digits)
         IN  IF /\ a > i + Len(ClassifierPrefix)
                /\ StartsAt(s, a, ".")
                /\ IsDigitAt(s, a + 1)
             THEN SkipRun(s, a + 1, Digits)
             ELSE 0

\* re.findall(r'Programming Language :: Python :: (\d+\.\d+)', content)
RECURSIVE Classifiers(_, _)
Classifiers(s, i) ==
    LET starts == {k \in i..Len(s) : ClassifierEnd(s, k) > 0}
    IN  IF starts = {} THEN <<>>
        ELSE LET k == Least(starts)
             IN  <<SubSeq(s, k + Len(ClassifierPrefix), ClassifierEnd(s, k) - 1)>>
                 \o Classifiers(s, ClassifierEnd(s, k))

\* re.search(r'(__version__|VERSION)\s*=\s*["\']?([\d\w.]+)["\']?', content):
\* the index where group 2 starts for a match at index i, or 0
VersionAssignmentAt(s, i) ==
    LET a == IF AfterAssignment(s, i, "__version__", "") > 0
             THEN AfterAssignment(s, i, "__version__", "")
             ELSE AfterAssignment(s, i, "VERSION", "")
        b == IF a > 0 /\ a <= Len(s) /\ Char(s, a) \in Quotes THEN a + 1 ELSE a
    IN  IF a > 0 /\ SkipRun(s, b, WordChars \cup {"."}) > b THEN b ELSE 0

\* group 2 of the leftmost match as <<text>>, or <<>>
VersionAssignment(content) ==
    LET starts == {i \in 1..Len(content) : VersionAssignmentAt(content, i) > 0}
    IN  IF starts = {} THEN <<>>
        ELSE LET b == VersionAssignmentAt(content, Least(starts))
             IN  <<SubSeq(content, b, SkipRun(content, b, WordChars \cup {"."}) - 1)>>

\* re.search(r'version\s*=\s*["\']([\d.]+)["\']', content): the index where
\* group 1 starts for a match at index i, or 0
SetupVersionAt(s, i) ==
    LET a == AfterQuotedAssignment(s, i, "version")
        b == SkipRun(s, a, Digits \cup {"."})
    IN  IF a > 0 /\ b > a /\ b <= Len(s) /\ Char(s, b) \in Quotes THEN a ELSE 0

\* group 1 of the leftmost match as <<text>>, or <<>>
SetupVersion(content) ==
    LET starts == {i \in 1..Len(content) : SetupVersionAt(content, i) > 0}
    IN  IF starts = {} THEN <<>>
        ELSE LET a == SetupVersionAt(content, Least(starts))
             IN  <<SubSeq(content, a, SkipRun(content, a, Digits \cup {"."}) - 1)>>

UpperCase == "ABCDEFGHIJKLMNOPQRSTUVWXYZ"
LowerCase == "abcdefghijklmnopqrstuvwxyz"

\* s.lower()
RECURSIVE Lower(_)
Lower(s) ==
    IF Len(s) = 0 THEN ""
    ELSE LET c == Head(s)
             k == Find(UpperCase, c, 1)
         IN  (IF k > 0 THEN Char(LowerCase, k) ELSE c) \o Lower(Tail(s))

\* s.endswith(suffix)
EndsWith(s, suffix) ==
    Len(suffix) <= Len(s) /\ SubSeq(s, Len(s) - Len(suffix) + 1, Len(s)) = suffix

(***************************************************************************)
(* get_python_version_from_directory                                       *)
(***************************************************************************)
extract_versions_from_file(file) == VersionTokens(file.text)

extract_python_version_from_setup_py(file) ==
    LET content == file.text
        python_requires_match == PythonRequires(content)
    IN  (IF Len(python_requires_match) > 0
         THEN VersionTokens(python_requires_match[1]) ELSE <<>>)
        \o Classifiers(content, 1)

extract_python_version_from_travis_yml(file) ==
    LET travis_yml == file.doc
    IN  IF IsLoadError(travis_yml) THEN Raise(travis_yml.error)
        ELSE IF ~IsDict(travis_yml) THEN Raise("AttributeError")
        ELSE LET python_versions == GetOr(travis_yml, "python", PyNone)
             IN  IF IsList(python_versions)
                 THEN Ok([i \in 1..Len(python_versions.list) |->
                             PyStrOf(python_versions.list[i])])
                 ELSE IF IsStr(python_versions) THEN Ok(<<python_versions.str>>)
                 ELSE Ok(<<>>)

extract_python_version_from_pyproject_toml(file) ==
    LET pyproject == file.doc
    IN  IF IsLoadError(pyproject) THEN Raise(pyproject.error)
        ELSE LET dependencies == PoetryEntry(pyproject, "dependencies")
             IN  IF ~IsOk(dependencies) THEN dependencies
                 ELSE IF ~IsDict(dependencies.ok) THEN Raise("AttributeError")
                 ELSE LET requires == GetOr(dependencies.ok, "python", PyNone)
                      IN  IF ~Truthy(requires) THEN Ok(<<>>)
                          ELSE IF ~IsStr(requires) THEN Raise("TypeError")
                          ELSE Ok(VersionTokens(requires.str))

\* One file of os.walk: get_all_markdown_files keeps the .md files, and the
\* first loop of get_python_version_from_directory reads them in that order
MarkdownStep ==
    /\ fn = "get_python_version_from_directory"
    /\ pc = "walk"
    /\ Len(todo) > 0
    /\ LET file == Head(todo)
       IN  IF EndsWith(file.name, ".md")
           THEN /\ possible_versions' = possible_versions \o extract_versions_from_file(file)
                /\ opened' = Append(opened, FullPath(file))
           ELSE UNCHANGED <<possible_versions, opened>>
    /\ todo' = Tail(todo)
    /\ UNCHANGED <<callVars, fs, cwd, pkgVars, cand, default, argVars>>

MarkdownDone ==
    /\ fn = "get_python_version_from_directory"
    /\ pc = "walk"
    /\ Len(todo) = 0
    /\ pc' = "setup.py"
    /\ UNCHANGED <<fn, exc, result, fsVars, pkgVars, verVars, argVars>>

\* if os.path.exists(path): ... possible_versions.append(version), for the file
\* of the root directory that the call is at; extracted is what its extractor
\* returns or raises
RootFileStep(name, extracted, next) ==
    /\ fn = "get_python_version_from_directory"
    /\ pc = name
    /\ opened' = IF Exists(Directory \o "/" \o name)
                 THEN Append(opened, Directory \o "/" \o name) ELSE opened
    /\ IF ~Exists(Directory \o "/" \o name)
       THEN pc' = next /\ UNCHANGED <<exc, possible_versions>>
       ELSE IF IsOk(extracted)
       THEN /\ possible_versions' = possible_versions \o extracted.ok
            /\ pc' = next
            /\ exc' = exc
       ELSE /\ pc' = "raised"
            /\ exc' = extracted.raise
            /\ possible_versions' = possible_versions
    /\ UNCHANGED <<fn, result, fs, cwd, todo, pkgVars, cand, default, argVars>>

SetupPyStep ==
    RootFileStep("setup.py",
                 Ok(extract_python_version_from_setup_py(Read(Directory \o "/setup.py"))),
                 ".travis.yml")

TravisYmlStep ==
    RootFileStep(".travis.yml",
                 extract_python_version_from_travis_yml(Read(Directory \o "/.travis.yml")),
                 "pyproject.toml")

PyprojectTomlStep ==
    RootFileStep("pyproject.toml",
                 extract_python_version_from_pyproject_toml(Read(Directory \o "/pyproject.toml")),
                 "select")

GetPythonVersionReturn ==
    /\ fn = "get_python_version_from_directory"
    /\ pc = "select"
    /\ result' = get_max_python_version(possible_versions)
    /\ pc' = "done"
    /\ UNCHANGED <<fn, exc, fsVars, pkgVars, verVars, argVars>>

(***************************************************************************)
(* get_repo_version_candidate and get_repo_version                         *)
(***************************************************************************)
\* key in container: TypeError when the container is None or a number
In(key, container) ==
    IF IsDict(container) THEN Ok(HasKey(container, key))
    ELSE IF IsStr(container) THEN Ok(Contains(container.str, key))
    ELSE IF IsList(container)
         THEN Ok(\E i \in 1..Len(container.list) : container.list[i] = PyStr(key))
    ELSE Raise("TypeError")

\* container[key] after key in container held: only a dict is indexed by a str
Subscript(container, key) ==
    IF IsDict(container) THEN Ok(<<Item(container, key)>>) ELSE Raise("TypeError")

\* The .travis.yml branch: Ok(<<value>>) assigns cand, Ok(<<>>) leaves it
TravisVersion(file) ==
    LET travis_data == file.doc
    IN  IF IsLoadError(travis_data)
        THEN (IF travis_data.error = "YAMLError" THEN Ok(<<>>) ELSE Raise(travis_data.error))
        ELSE LET has == In("version", travis_data)
             IN  IF ~IsOk(has) THEN has
                 ELSE IF has.ok THEN Subscript(travis_data, "version")
                 ELSE Ok(<<>>)

\* key in toml_data[table] and the keys before it in the condition, which
\* stops at the first that is not there
InTable(toml_data, table, key) ==
    IF ~HasKey(toml_data, table) THEN Ok(FALSE) ELSE In(key, Item(toml_data, table))

\* The pyproject.toml branch
PyprojectVersion(file) ==
    LET toml_data == file.doc
    IN  IF IsLoadError(toml_data)
        THEN (IF toml_data.error = "TomlDecodeError" THEN Ok(<<>>)
              ELSE Raise(toml_data.error))
        ELSE LET poetry == InTable(toml_data, "tool", "poetry")
                 tool == Item(toml_data, "tool")
                 version == InTable(tool, "poetry", "version")
                 project == InTable(toml_data, "project", "version")
             IN  IF ~IsOk(poetry) THEN poetry
                 ELSE IF poetry.ok /\ ~IsDict(tool) THEN Raise("TypeError")
                 ELSE IF poetry.ok /\ ~IsOk(version) THEN version
                 ELSE IF poetry.ok /\ version.ok
                      THEN LET table == Subscript(Item(tool, "poetry"), "version")
                           IN  table
                 ELSE IF ~IsOk(project) THEN project
                 ELSE IF project.ok THEN Subscript(Item(toml_data, "project"), "version")
                 ELSE Ok(<<>>)

VersionFileNames == {"version", ".version"}

VersionModuleNames == {"version.py", "__init__.py", "__version__.py", "__pkginfo__.py"}

\* What the body of the loop of get_repo_version_candidate does with one file:
\* Ok(<<value>>) assigns the value to cand, Ok(<<>>) leaves cand as it is
CandidateFrom(file) ==
    IF file.name = ".travis.yml" THEN TravisVersion(file)
    ELSE IF Lower(file.name) \in VersionFileNames THEN Ok(<<PyStr(Strip(file.text))>>)
    ELSE IF file.name \in VersionModuleNames
         THEN (IF Len(VersionAssignment(file.text)) > 0
               THEN Ok(<<PyStr(VersionAssignment(file.text)[1])>>) ELSE Ok(<<>>))
    ELSE IF file.name = "pyproject.toml" THEN PyprojectVersion(file)
    ELSE IF file.name = "setup.py"
         THEN (IF Len(SetupVersion(file.text)) > 0
               THEN Ok(<<PyStr(SetupVersion(file.text)[1])>>) ELSE Ok(<<>>))
    ELSE Ok(<<>>)

\* The files whose name the loop has a branch for are opened
IsVersionBearing(file) ==
    \/ file.name \in {".travis.yml", "pyproject.toml", "setup.py"}
    \/ Lower(file.name) \in VersionFileNames
    \/ file.name \in VersionModuleNames

\* One file of os.walk in get_repo_version_candidate
CandidateStep ==
    /\ fn = "get_repo_version"
    /\ pc = "walk"
    /\ Len(todo) > 0
    /\ LET file == Head(todo)
           from == CandidateFrom(file)
       IN  /\ opened' = IF IsVersionBearing(file) THEN Append(opened, FullPath(file))
                        ELSE opened
           /\ IF IsOk(from)
              THEN /\ cand' = IF Len(from.ok) > 0 THEN from.ok[1] ELSE cand
                   /\ UNCHANGED <<pc, exc>>
              ELSE /\ pc' = "raised"
                   /\ exc' = from.raise
                   /\ cand' = cand
    /\ todo' = Tail(todo)
    /\ UNCHANGED <<fn, result, fs, cwd, pkgVars, possible_versions, default, argVars>>

\* re.findall(r'\b(\d+\.\d+)\b', s)
MajorMinorTokens(s) == FindVersions(s, 1, FALSE)

\* get_repo_version after get_repo_version_candidate has returned cand
get_repo_version(candidate, dflt) ==
    IF ~Truthy(candidate) THEN Ok(dflt)
    ELSE IF ~IsStr(candidate) THEN Raise("TypeError")
    ELSE LET matches == MajorMinorTokens(candidate.str)
         IN  IF Len(matches) > 0 THEN Ok(PyStr(matches[1])) ELSE Ok(dflt)

GetRepoVersionReturn ==
    /\ fn = "get_repo_version"
    /\ pc = "walk"
    /\ Len(todo) = 0
    /\ LET returned == get_repo_version(cand, default)
       IN  IF IsOk(returned)
           THEN /\ result' = returned.ok
                /\ pc' = "done"
                /\ exc' = exc
           ELSE /\ result' = result
                /\ pc' = "raised"
                /\ exc' = returned.raise
    /\ UNCHANGED <<fn, fsVars, pkgVars, verVars, argVars>>

(***************************************************************************)
(* The calls of get_python_version_from_directory and get_repo_version     *)
(***************************************************************************)
TravisDoc == PyDict(<< <<"language", PyStr("python")>>,
                       <<"python", PyList(<<PyStr("3.7"), PyNum("3.8")>>)>> >>)

TravisNullVersionDoc == PyDict(<< <<"python", PyStr("3.8")>>, <<"version", PyNone>> >>)

ProjectDoc == PyDict(<< <<"project", PyDict(<< <<"version", PyStr("1.0.0")>> >>)>> >>)

\* The files the filesystem of a call is drawn from
VersionFiles ==
    {TextFile("/repo", "README.md", "Python 3.6, 3.9 and 3.13\n"),
     TextFile("/repo/docs", "index.md", "v2.7 or 3.12.1a\n"),
     TextFile("/repo", "setup.py", SetupPyText),
     TextFile("/repo", "setup.py",
              "setup(version=get_version(),\n"
              \o " classifiers=['Programming Language :: Python :: 3.10'])\n"),
     DocFile("/repo", ".travis.yml", TravisDoc),
     DocFile("/repo", ".travis.yml", TravisNullVersionDoc),
     DocFile("/repo", ".travis.yml", PyNone),
     DocFile("/repo", ".travis.yml", LoadError("YAMLError")),
     DocFile("/repo", "pyproject.toml", PyprojectDoc),
     DocFile("/repo", "pyproject.toml", ProjectDoc),
     DocFile("/repo", "pyproject.toml", LoadError("TomlDecodeError")),
     DocFile("/repo/sub", "pyproject.toml", PyprojectDoc),
     TextFile("/repo", "VERSION", "1.4.2\n"),
     TextFile("/repo/pkg", "version", ""),
     TextFile("/repo/pkg", ".version", "a1.2 3.4\n"),
     TextFile("/repo/pkg", "__init__.py", "__version__ = '0.3.1'\n"),
     TextFile("/repo/pkg", "__init__.py", "import os\n"),
     TextFile("/repo/pkg", "version.py", "VERSION = (1, 2)\n__version__ = \"v1.2\"\n")}

\* The defaults get_repo_version is called with: its own, -1, and a caller's
Defaults == {PyNum("-1"), PyStr("unknown")}

InitVer ==
    /\ \/ fn = "get_python_version_from_directory" /\ default = PyNone
       \/ fn = "get_repo_version" /\ default \in Defaults
    /\ pc = "walk"
    /\ exc = ""
    /\ result = PyNone
    /\ fs \in FileSystems(VersionFiles)
    /\ cwd \in WorkingDirectories
    /\ todo \in WalkOrders(fs)
    /\ opened = <<>>
    /\ possible_versions = <<>>
    /\ cand = PyNone
    /\ IdlePkg /\ IdleArgs

NextVer ==
    \/ MarkdownStep
    \/ MarkdownDone
    \/ SetupPyStep
    \/ TravisYmlStep
    \/ PyprojectTomlStep
    \/ GetPythonVersionReturn
    \/ CandidateStep
    \/ GetRepoVersionReturn

SpecVer == InitVer /\ [][NextVer]_vars

(***************************************************************************)
(* Claims about get_max_python_version                                     *)
(***************************************************************************)
MaxDone == fn = "get_max_python_version" /\ pc = "done"

\* A candidate as the claims describe it: 2 or 3 integers separated by dots,
\* major 3 and minor from 5 to 12
IsCandidate(v) ==
    LET parts == Split(v, ".")
    IN  /\ Len(parts) \in {2, 3}
        /\ \A i \in 1..Len(parts) : IsInt(parts[i])
        /\ IntOf(parts[1]) = 3
        /\ IntOf(parts[2]) \in 5..12

Candidates == {i \in 1..Len(versions) : IsCandidate(versions[i])}

TupleText(t) == Join([i \in 1..Len(t) |-> StrOf(t[i])], ".")

\* C4: get_max_python_version returns None when no candidate is valid, and
\* otherwise the greatest, in tuple order, of the candidates that are 2 or 3
\* integers with (major, minor) from (3,5) to (3,12); 3.6, 3.9, 3.13 give 3.9.
C4_MaxOfValidCandidates ==
    MaxDone =>
        /\ IF Candidates = {} THEN IsNone(result)
           ELSE /\ IsStr(result)
                /\ \E i \in Candidates :
                       /\ result.str = TupleText(VersionTuple(versions[i]))
                       /\ \A j \in Candidates :
                              ~TupleLess(VersionTuple(versions[i]), VersionTuple(versions[j]))
        /\ (versions = <<"3.6", "3.9", "3.13">> => result = PyStr("3.9"))

C4_Witness ==
    /\ MaxDone
    /\ versions = <<"3.6", "3.9", "3.13">>
    /\ result = PyStr("3.9")

\* The candidates whose (major, minor) is the greatest
TopCandidates ==
    {i \in Candidates :
        \A j \in Candidates :
            ~TupleLess(SubSeq(VersionTuple(versions[i]), 1, 2),
                       SubSeq(VersionTuple(versions[j]), 1, 2))}

\* A 2-component and a 3-component candidate share the greatest (major, minor)
MixedTie ==
    /\ \E i \in TopCandidates : Len(VersionTuple(versions[i])) = 2
    /\ \E j \in TopCandidates : Len(VersionTuple(versions[j])) = 3

TopPatches == {VersionTuple(versions[j])[3] :
                  j \in {k \in TopCandidates : Len(VersionTuple(versions[k])) = 3}}

\* C10 as stated: with X.Y and X.Y.Z both the greatest by (major, minor), the
\* result is X.Y.Z only if Z is nonzero, and X.Y when Z = 0.
C10_ZeroPatchGivesTwoComponents ==
    (MaxDone /\ MixedTie) =>
        /\ IsStr(result)
        /\ Len(Split(result.str, ".")) = (IF TopPatches = {0} THEN 2 ELSE 3)

\* C10 as amended: with X.Y and X.Y.Z both the greatest by (major, minor), the
\* result is X.Y.Z for the greatest such Z, also when Z = 0.
C10_ThreeComponentsWin ==
    (MaxDone /\ MixedTie) =>
        /\ IsStr(result)
        /\ \E j \in TopCandidates :
               /\ Len(VersionTuple(versions[j])) = 3
               /\ result.str = TupleText(VersionTuple(versions[j]))
               /\ \A z \in TopPatches : z <= VersionTuple(versions[j])[3]

C10_Witness ==
    /\ MaxDone
    /\ MixedTie
    /\ TopPatches = {0}
    /\ result = PyStr("3.9.0")

(***************************************************************************)
(* Claims about is_valid_package_name                                      *)
(***************************************************************************)
\* The grammar C5 states: an identifier, then optionally one of == >= <= !=
\* ~= < > and a version string (whitespace before the operator allowed, any
\* text as the version string)
StatedGrammar(pkg) ==
    /\ Len(pkg) > 0
    /\ Char(pkg, 1) \in NameStart
    /\ LET i == SkipRun(pkg, 2, NameChars)
           j == SkipRun(pkg, i, Whitespace)
       IN  \E p \in i..j :
               \/ AtDollar(pkg, p)
               \/ \E op \in {"==", ">=", "<=", "!=", "~=", "<", ">"} :
                      /\ StartsAt(pkg, p, op)
                      /\ RestMatches(pkg, p + Len(op))

\* C5: is_valid_package_name accepts exactly an identifier optionally followed
\* by one of == >= <= != ~= < > and a version string; it accepts
\* numpy==1.21.0, flask_sqlalchemy and foo<2.0 and rejects 1invalid and ==1.0.
C5_AcceptsStatedGrammar ==
    (fn = "is_valid_package_name" /\ pc = "done") =>
        /\ result.bool = StatedGrammar(package)
        /\ (package \in {"numpy==1.21.0", "flask_sqlalchemy", "foo<2.0"} => result.bool)
        /\ (package \in {"1invalid", "==1.0"} => ~result.bool)

(***************************************************************************)
(* Claims about find_files and get_required_packages                       *)
(***************************************************************************)
Tree == {f \in fs : UnderDirectory(f)}

IsRequirementsFamily(f) == StartsWith(f.name, "requirements")

\* How many times item occurs in seq
Occurrences(seq, item) == Cardinality({i \in 1..Len(seq) : seq[i] = item})

PackagesReturned == fn = "get_required_packages" /\ pc = "done"

PackagesEnded == fn = "get_required_packages" /\ pc \in {"done", "raised"}

\* C1: get_required_packages parses every relative path of the File Locator's
\* mapping, resolved under the scanned directory; for a directory whose only
\* manifest is requirements-dev.txt with the line foo==1.0 it returns exactly
\* ["foo==1.0"] and does not raise, whatever the current working directory is.
C1_ParsesMappedPaths ==
    PackagesEnded =>
        /\ (Tree = {TextFile(Directory, "requirements-dev.txt", "foo==1.0\n")}
               => (pc = "done" /\ result = PyList(<<"foo==1.0">>)))
        /\ (pc = "done" =>
               \A f \in Tree :
                   (IsRequirementsFamily(f) /\ ~Contains(RelPath(f), "docs"))
                       => \E i \in 1..Len(opened) : opened[i] = FullPath(f))

\* seq without the later occurrences of each of its entries
RECURSIVE FirstOccurrences(_)
FirstOccurrences(seq) ==
    IF Len(seq) = 0 THEN <<>>
    ELSE LET front == FirstOccurrences(SubSeq(seq, 1, Len(seq) - 1))
             last == seq[Len(seq)]
         IN  IF Occurrences(front, last) > 0 THEN front ELSE Append(front, last)

NormalizedValid ==
    LET valid == SelectSeq(all_packages, is_valid_package_name)
    IN  [i \in 1..Len(valid) |-> Normalized(valid[i])]

\* C2: each normalized package string is at most once in the returned list,
\* in the order of first occurrence in the concatenated parser output, also
\* when two raw strings differ only in whitespace or a trailing comment.
C2_NormalizedOnce ==
    PackagesReturned =>
        /\ \A i, j \in 1..Len(result.list) : i # j => result.list[i] # result.list[j]
        /\ result.list = FirstOccurrences(NormalizedValid)

\* C6: a requirements-family file whose relative path contains docs is never
\* parsed by get_required_packages, and the requirements-family files whose
\* relative path does not contain docs are parsed.
C6_DocsRequirementsSkipped ==
    fn = "get_required_packages" =>
        /\ \A i \in 1..Len(opened) :
               ~\E f \in Tree :
                    /\ FullPath(f) = opened[i]
                    /\ IsRequirementsFamily(f)
                    /\ Contains(RelPath(f), "docs")
        /\ (pc = "done" =>
               \A f \in Tree :
                   (IsRequirementsFamily(f) /\ ~Contains(RelPath(f), "docs"))
                       => Occurrences(opened, FullPath(f)) > 0)

WalkOver ==
    /\ fn \in {"find_files", "get_required_packages", "get_required_packages_file"}
    /\ pc # "walk"

IsTarget(name) == \E i \in 1..Len(filenames) : filenames[i] = name

\* found_files lists each file of the tree once under the key keyOf[f] names,
\* <<key>>, and nowhere when keyOf[f] is <<>>; it has no other entry, no key
\* twice and no key without a path
ListsEachFileUnder(keyOf) ==
    /\ \A f \in Tree : \A i \in 1..Len(found_files) :
           Occurrences(found_files[i][2], RelPath(f))
               = (IF keyOf[f] = <<found_files[i][1]>> THEN 1 ELSE 0)
    /\ \A f \in Tree :
           keyOf[f] # <<>> => \E i \in 1..Len(found_files) : found_files[i][1] = keyOf[f][1]
    /\ \A i \in 1..Len(found_files) :
           /\ Len(found_files[i][2]) > 0
           /\ \A j \in 1..Len(found_files[i][2]) :
                  \E f \in Tree : RelPath(f) = found_files[i][2][j]
           /\ \A k \in 1..Len(found_files) : found_files[k][1] = found_files[i][1] => k = i

\* C7 as stated: a file whose name starts with requirements is listed under
\* requirements.txt regardless of its own name, also when its name is a
\* target; any other file whose name is a target is listed under that target;
\* no other file is listed, and a target with no matching file has no key.
C7_PrefixBeforeTargets ==
    WalkOver =>
        ListsEachFileUnder([f \in Tree |->
            IF IsRequirementsFamily(f) THEN <<"requirements.txt">>
            ELSE IF IsTarget(f.name) THEN <<f.name>>
            ELSE <<>>])

\* C7 as amended: a file whose name is a target is listed under that target;
\* any other file whose name starts with requirements is listed under
\* requirements.txt; no other file is listed, each file is under at most one
\* key, and a key exists only with a file listed under it.
C7_TargetsBeforePrefix ==
    WalkOver =>
        ListsEachFileUnder([f \in Tree |->
            IF IsTarget(f.name) THEN <<f.name>>
            ELSE IF IsRequirementsFamily(f) THEN <<"requirements.txt">>
            ELSE <<>>])

C7_Witness ==
    /\ fn = "find_files"
    /\ pc = "done"
    /\ filenames = <<"requirements.in", "setup.py">>
    /\ found_files = << <<"requirements.txt", <<"requirements-dev.txt">>>>,
                        <<"requirements.in", <<"requirements.in">>>> >>

(***************************************************************************)
(* Claims about the version extractors                                     *)
(***************************************************************************)
\* C3: get_python_version_from_directory and get_repo_version never raise for
\* malformed or unusual contents of the files they recognize: the call
\* completes with a version string, None or the default.
C3_VersionCallsNeverRaise ==
    fn \in {"get_python_version_from_directory", "get_repo_version"} =>
        /\ pc # "raised"
        /\ exc = ""

\* The first substring of s of the form digits, dot, digits: <<text>>, or <<>>
FirstMajorMinor(s) ==
    LET End(k) == SkipRun(s, SkipRun(s, k, Digits) + 1, Digits)
        starts == {k \in 1..Len(s) :
                      /\ IsDigitAt(s, k)
                      /\ StartsAt(s, SkipRun(s, k, Digits), ".")
                      /\ IsDigitAt(s, SkipRun(s, k, Digits) + 1)}
    IN  IF starts = {} THEN <<>>
        ELSE <<SubSeq(s, Least(starts), End(Least(starts)) - 1)>>

\* C8: get_repo_version returns the default or the first substring of the form
\* major.minor of the final running candidate; it returns the default when the
\* tree has no version-bearing file or the candidate has no such substring.
C8_DefaultOrFirstMajorMinor ==
    (fn = "get_repo_version" /\ pc \in {"done", "raised"}) =>
        /\ pc = "done"
        /\ \/ result = default
           \/ /\ IsStr(result)
              /\ IsStr(cand)
              /\ FirstMajorMinor(cand.str) = <<result.str>>
        /\ (~(\E f \in Tree : IsVersionBearing(f)) => result = default)
        /\ ((IsStr(cand) /\ FirstMajorMinor(cand.str) = <<>>) => result = default)

\* A recognized file from which no version is extracted: the key or the
\* pattern is absent, the version file is empty, the value is null, or the file
\* does not parse
NoVersionIn(f) ==
    \/ ~IsVersionBearing(f)
    \/ /\ f.name = ".travis.yml"
       /\ \/ IsLoadError(f.doc)
          \/ ~IsDict(f.doc)
          \/ ~HasKey(f.doc, "version")
          \/ IsNone(Item(f.doc, "version"))
    \/ /\ Lower(f.name) \in VersionFileNames
       /\ Strip(f.text) = ""
    \/ /\ f.name \in VersionModuleNames
       /\ VersionAssignment(f.text) = <<>>
    \/ /\ f.name = "pyproject.toml"
       /\ \/ IsLoadError(f.doc)
          \/ PyprojectVersion(f) = Ok(<<>>)
    \/ /\ f.name = "setup.py"
       /\ SetupVersion(f.text) = <<>>

\* C9: get_repo_version_candidate overwrites the running candidate with the
\* version of each file it extracts one from, and a file from which no version
\* is extracted leaves the running candidate unchanged.
C9_OverwriteOnSuccessOnly ==
    [][(fn = "get_repo_version" /\ pc = "walk" /\ Len(todo) > 0) =>
           IF NoVersionIn(Head(todo))
           THEN cand' = cand
           ELSE IsOk(CandidateFrom(Head(todo)))
                    => cand' = CandidateFrom(Head(todo)).ok[1]]_vars

=============================================================================
